---- MODULE Spec2Model ----
(***************************************************************************)
(* Model of middleware/logger/config.go: the Config structure, the         *)
(* package-level ConfigDefault and the helper configDefault that merges a  *)
(* caller-supplied Config with the defaults.                               *)
(*                                                                         *)
(* A time.Duration is a 64-bit two's-complement nanosecond count.  It is   *)
(* kept as its two 32-bit words [hi, lo], each held as a signed 32-bit     *)
(* number: the value is hi * 2^32 + (lo mod 2^32).  The conversion         *)
(* int(d) of line 150 is the identity where int is 64 bits wide and keeps  *)
(* the low word, sign-extended, where int is 32 bits wide.                 *)
(***************************************************************************)
EXTENDS Integers, Sequences, FiniteSets, TLC

VARIABLES ConfigDefault, intSize, config, cfg, prev, pc

vars == <<ConfigDefault, intSize, config, cfg, prev, pc>>

\* ---------------------------------------------------------------- bounds
\* largest number of variadic arguments a modelled call passes
MaxArgs == 2
\* largest number of optional callback-like fields one modelled caller sets
MaxSupplied == 1

\* ------------------------------------------------------------- durations
MinInt32 == -2147483647 - 1

Duration(h, l) == [hi |-> h, lo |-> l]

Millisecond == 1000000

\* 500 * time.Millisecond
DefaultTimeInterval == Duration(0, 500 * Millisecond)

\* widths the Go type int has on the supported platforms
IntSizes == {32, 64}

\* int(d): conversion of an int64 to the platform's int
ToInt(d, size) ==
    IF size = 64 THEN d
    ELSE Duration(IF d.lo < 0 THEN -1 ELSE 0, d.lo)

\* v <= 0 on a two-word value
LeqZero(v) == v.hi < 0 \/ (v.hi = 0 /\ v.lo = 0)

\* the mathematical sign of the 64-bit duration
IsPositive(d) == ~LeqZero(d)

\* ---------------------------------------------------------------- values
NIL == "nil"

defaultFormat == "[${time}] ${ip} ${status} - ${latency} ${method} ${path} ${error}\n"

\* names the time zone database knows (examples of the TimeZone comment)
KnownTimeZones == {"Local", "UTC", "America/New_York", "Asia/Chongqing"}

EmptyTags == [t \in {} |-> NIL]

\* the zero value Config{}
ZeroConfig ==
    [Stream |-> NIL, Next |-> NIL, Skip |-> NIL, Done |-> NIL,
     CustomTags |-> EmptyTags, BeforeHandlerFunc |-> NIL, LoggerFunc |-> NIL,
     timeZoneLocation |-> NIL, Format |-> "", TimeFormat |-> "",
     TimeZone |-> "", TimeInterval |-> Duration(0, 0),
     DisableColors |-> FALSE, enableColors |-> FALSE, enableLatency |-> FALSE]

\* the initial value of the package-level variable ConfigDefault
InitialConfigDefault ==
    [ZeroConfig EXCEPT
        !.Next = NIL, !.Skip = NIL, !.Done = NIL,
        !.Format = defaultFormat,
        !.TimeFormat = "15:04:05",
        !.TimeZone = "Local",
        !.TimeInterval = DefaultTimeInterval,
        !.Stream = "os.Stdout",
        !.BeforeHandlerFunc = "beforeHandlerFunc",
        !.LoggerFunc = "defaultLoggerInstance",
        !.enableColors = TRUE]

\* ------------------------------------------------------ configDefault
\* if v == zero { v = def }
MutNeverDefault(v, zero, def) == v

MutAlwaysDefault(v, zero, def) == def

MutKeepEmpty(v, zero, def) == IF v = zero /\ zero # "" THEN def ELSE v

OrDefault(v, zero, def) == IF v = zero THEN def ELSE v

\* int(cfg.TimeInterval) <= 0
InvalidInterval(d) == LeqZero(ToInt(d, intSize))

\* cfg := config[0]
MutLastConfig(cs) == cs[Len(cs)]

FirstConfig(cs) == cs[1]

\* if !cfg.DisableColors && cfg.Stream == ConfigDefault.Stream { cfg.enableColors = true }
MutColorsIgnoreStream(c) ==
    IF ~c.DisableColors THEN [c EXCEPT !.enableColors = TRUE] ELSE c

MutColorsToggle(c) ==
    IF ~c.DisableColors /\ c.Stream = ConfigDefault.Stream
    THEN [c EXCEPT !.enableColors = ~c.enableColors]
    ELSE c

EnableColors(c) ==
    IF ~c.DisableColors /\ c.Stream = ConfigDefault.Stream
    THEN [c EXCEPT !.enableColors = TRUE]
    ELSE c

configDefault(cs) ==
    IF Len(cs) < 1 THEN ConfigDefault
    ELSE
      LET c0 == FirstConfig(cs)
          c1 == [c0 EXCEPT
                   !.Next = OrDefault(c0.Next, NIL, ConfigDefault.Next),
                   !.Skip = OrDefault(c0.Skip, NIL, ConfigDefault.Skip),
                   !.Done = OrDefault(c0.Done, NIL, ConfigDefault.Done),
                   !.Format = OrDefault(c0.Format, "", ConfigDefault.Format),
                   !.TimeZone = OrDefault(c0.TimeZone, "", ConfigDefault.TimeZone),
                   !.TimeFormat = OrDefault(c0.TimeFormat, "", ConfigDefault.TimeFormat),
                   !.TimeInterval = IF InvalidInterval(c0.TimeInterval)
                                    THEN ConfigDefault.TimeInterval
                                    ELSE c0.TimeInterval,
                   !.Stream = OrDefault(c0.Stream, NIL, ConfigDefault.Stream),
                   !.BeforeHandlerFunc = OrDefault(c0.BeforeHandlerFunc, NIL,
                                                   ConfigDefault.BeforeHandlerFunc),
                   !.LoggerFunc = OrDefault(c0.LoggerFunc, NIL, ConfigDefault.LoggerFunc)]
      IN EnableColors(c1)

\* ---------------------------------------------------------------- inputs
Streams == {NIL, "os.Stdout", "customWriter"}
Formats == {"", defaultFormat, "${status}"}
TimeFormats == {"", "2006-01-02"}
TimeZones == {"", "UTC", "Mars/Phobos"}
TimeIntervals ==
    { Duration(0, 0),              \* 0
      Duration(0, 1000000000),     \* 1s
      Duration(0, MinInt32),       \* 2^31 ns
      Duration(1, 0),              \* 2^32 ns
      Duration(1, 1),              \* 2^32 + 1 ns
      Duration(-1, -1),            \* -1 ns
      Duration(-1, 1),             \* -(2^32) + 1 ns
      Duration(-1, 0) }            \* -(2^32) ns

\* the optional callback-like fields and the value a caller may give each
Optional ==
    [Next |-> "nextFn", Skip |-> "skipFn", Done |-> "doneFn",
     CustomTags |-> [t \in {"status"} |-> "customStatus"],
     BeforeHandlerFunc |-> "customBefore", LoggerFunc |-> "customLogger",
     timeZoneLocation |-> "utcLocation", enableLatency |-> TRUE]

OptionalSets == {S \in SUBSET (DOMAIN Optional) : Cardinality(S) <= MaxSupplied}

Pick(S, f) == IF f \in S THEN Optional[f] ELSE ZeroConfig[f]

\* the Config values a modelled caller passes as first argument
Configs ==
    { [Stream |-> st, Next |-> Pick(S, "Next"), Skip |-> Pick(S, "Skip"),
       Done |-> Pick(S, "Done"), CustomTags |-> Pick(S, "CustomTags"),
       BeforeHandlerFunc |-> Pick(S, "BeforeHandlerFunc"),
       LoggerFunc |-> Pick(S, "LoggerFunc"),
       timeZoneLocation |-> Pick(S, "timeZoneLocation"),
       Format |-> f, TimeFormat |-> tf, TimeZone |-> tz, TimeInterval |-> ti,
       DisableColors |-> dc, enableColors |-> ec,
       enableLatency |-> Pick(S, "enableLatency")] :
      st \in Streams, f \in Formats, tf \in TimeFormats, tz \in TimeZones,
      ti \in TimeIntervals, dc \in BOOLEAN, ec \in BOOLEAN, S \in OptionalSets }

\* the Config values passed after the first one in a variadic call
ExtraConfigs ==
    { ZeroConfig,
      [ZeroConfig EXCEPT !.Stream = "customWriter", !.Format = "${status}",
                         !.TimeZone = "UTC", !.TimeFormat = "2006-01-02",
                         !.TimeInterval = Duration(0, 1000000000),
                         !.DisableColors = TRUE, !.Next = "nextFn"] }

RECURSIVE SeqsOf(_, _)
SeqsOf(S, n) ==
    IF n = 0 THEN {<<>>}
    ELSE {Append(s, e) : s \in SeqsOf(S, n - 1), e \in S}

ExtraArgs == UNION {SeqsOf(ExtraConfigs, n) : n \in 0..(MaxArgs - 1)}

\* --------------------------------------------------------------- actions
Init ==
    /\ ConfigDefault = InitialConfigDefault
    /\ intSize \in IntSizes
    /\ config = <<>>
    /\ cfg = ZeroConfig
    /\ prev = <<>>
    /\ pc = "idle"

\* a caller invokes configDefault() with no argument
CallNone ==
    /\ pc = "idle"
    /\ config' = <<>>
    /\ pc' = "called"
    /\ UNCHANGED <<ConfigDefault, intSize, cfg, prev>>

\* a caller invokes configDefault(c, more...)
CallWith ==
    /\ pc = "idle"
    /\ \E c \in Configs, more \in ExtraArgs : config' = <<c>> \o more
    /\ pc' = "called"
    /\ UNCHANGED <<ConfigDefault, intSize, cfg, prev>>

\* a caller passes an already resolved Config to configDefault again
CallAgain ==
    /\ pc = "returned"
    /\ prev = <<>>
    /\ config' = <<cfg>>
    /\ prev' = <<cfg>>
    /\ pc' = "called"
    /\ UNCHANGED <<ConfigDefault, intSize, cfg>>

\* the body of configDefault
Return ==
    /\ pc = "called"
    /\ cfg' = configDefault(config)
    /\ pc' = "returned"
    /\ UNCHANGED <<ConfigDefault, intSize, config, prev>>

\* the caller drops the result
Reset ==
    /\ pc = "returned"
    /\ config' = <<>>
    /\ cfg' = ZeroConfig
    /\ prev' = <<>>
    /\ pc' = "idle"
    /\ UNCHANGED <<ConfigDefault, intSize>>

Next == CallNone \/ CallWith \/ CallAgain \/ Return \/ Reset

Spec == Init /\ [][Next]_vars

\* ---------------------------------------------------------------- claims
\* configDefault has returned the Config it computed for a caller-supplied one
Supplied == pc = "returned" /\ Len(config) >= 1

\* the first Config the caller passed
arg == config[1]

\* C1: every absent (zero-valued) field of a caller-supplied Config is
\* returned as its documented default: Format "" as the default format,
\* TimeFormat "" as "15:04:05", TimeZone "" as "Local", TimeInterval 0 as
\* 500ms, Stream nil as os.Stdout; absent Next, Skip and Done stay nil and
\* an absent CustomTags stays empty.
C1_AbsentFieldsGetDefaults ==
    Supplied =>
      /\ arg.Format = "" =>
           cfg.Format = "[${time}] ${ip} ${status} - ${latency} ${method} ${path} ${error}\n"
      /\ arg.TimeFormat = "" => cfg.TimeFormat = "15:04:05"
      /\ arg.TimeZone = "" => cfg.TimeZone = "Local"
      /\ arg.TimeInterval = Duration(0, 0) => cfg.TimeInterval = Duration(0, 500000000)
      /\ arg.Stream = NIL => cfg.Stream = "os.Stdout"
      /\ arg.Next = NIL => cfg.Next = NIL
      /\ arg.Skip = NIL => cfg.Skip = NIL
      /\ arg.Done = NIL => cfg.Done = NIL
      /\ arg.CustomTags = EmptyTags => cfg.CustomTags = EmptyTags

C1_Witness ==
    /\ Supplied
    /\ arg = ZeroConfig
    /\ cfg.Stream = "os.Stdout"
    /\ cfg.TimeInterval = DefaultTimeInterval

\* C2: a caller-supplied TimeInterval that is zero or negative is returned as
\* the default 500ms, and the returned TimeInterval is never zero or negative.
C2_NonPositiveIntervalDefaults ==
    Supplied =>
      /\ LeqZero(arg.TimeInterval) => cfg.TimeInterval = DefaultTimeInterval
      /\ IsPositive(cfg.TimeInterval)

\* C3 as stated: a caller-supplied empty Format is returned empty.
C3_EmptyFormatKept ==
    Supplied /\ arg.Format = "" => cfg.Format = ""

\* C3 (amended): a caller-supplied empty Format is indistinguishable from an
\* absent one and is returned as the non-empty ConfigDefault.Format.
C3_EmptyFormatDefaults ==
    Supplied /\ arg.Format = "" =>
      cfg.Format = ConfigDefault.Format /\ cfg.Format # ""

C3_Witness ==
    /\ Supplied
    /\ arg.Format = ""
    /\ arg.Stream = "customWriter"
    /\ cfg.Format = defaultFormat

C5_InvalidZoneDefaults ==
    Supplied /\ arg.TimeZone # "" /\ arg.TimeZone \notin KnownTimeZones =>
      cfg.TimeZone = "Local"

\* C6: every returned Config has a non-nil Stream, LoggerFunc and
\* BeforeHandlerFunc, a non-empty Format, TimeFormat and TimeZone and a
\* strictly positive TimeInterval.
C6_ResultUsable ==
    pc = "returned" /\ ConfigDefault = InitialConfigDefault =>
      /\ cfg.Stream # NIL
      /\ cfg.Format # ""
      /\ cfg.TimeFormat # ""
      /\ cfg.TimeZone # ""
      /\ IsPositive(cfg.TimeInterval)
      /\ cfg.LoggerFunc # NIL
      /\ cfg.BeforeHandlerFunc # NIL

\* the fields of a caller-supplied Config that configDefault may not touch
C7_SuppliedKept ==
    Supplied =>
      /\ \A f \in {"Next", "Skip", "Done", "LoggerFunc", "BeforeHandlerFunc", "Stream"} :
           arg[f] # NIL => cfg[f] = arg[f]
      /\ \A f \in {"Format", "TimeFormat", "TimeZone"} :
           arg[f] # "" => cfg[f] = arg[f]
      /\ \A f \in {"CustomTags", "DisableColors", "timeZoneLocation", "enableLatency"} :
           cfg[f] = arg[f]

\* C7: configDefault returns every supplied (non-nil, non-empty) field and
\* CustomTags, DisableColors, timeZoneLocation and enableLatency unchanged,
\* and running it changes neither the caller's Config nor ConfigDefault.
C7_NeverOverwritesSupplied ==
    /\ []C7_SuppliedKept
    /\ [][pc = "called" => config' = config /\ ConfigDefault' = ConfigDefault]_vars

C7_Witness ==
    /\ Supplied
    /\ arg.Stream = "customWriter"
    /\ arg.Format = "${status}"
    /\ arg.TimeZone = "Mars/Phobos"
    /\ arg.Next = "nextFn"
    /\ cfg.Format = "${status}"

\* C8: every strictly positive caller-supplied TimeInterval is returned
\* unchanged, whatever the width of int.
C8_PositiveIntervalKept ==
    Supplied /\ IsPositive(arg.TimeInterval) => cfg.TimeInterval = arg.TimeInterval

\* C9: the call without argument returns ConfigDefault, which is also what
\* the all-zero Config resolves to; a call with several Configs returns what
\* the first one alone resolves to.
C9_NoArgAndFirstArg ==
    pc = "returned" =>
      /\ Len(config) = 0 =>
           cfg = ConfigDefault /\ cfg = configDefault(<<ZeroConfig>>)
      /\ Len(config) > 1 => cfg = configDefault(<<config[1]>>)

C9_Witness ==
    /\ pc = "returned"
    /\ Len(config) > 1
    /\ cfg # configDefault(<<config[Len(config)]>>)

\* C10: resolving an already resolved Config returns it unchanged in every
\* field.
C10_Idempotent ==
    pc = "returned" /\ prev # <<>> => cfg = prev[1]

C10_Witness ==
    /\ pc = "returned"
    /\ prev # <<>>
    /\ cfg.enableColors
    /\ cfg.Format = "${status}"
    /\ cfg.TimeInterval = Duration(-1, 1)

====
